---- MODULE Spec2Model ----
(***************************************************************************)
(* Model of the acquisition component of the EEG monitor:                  *)
(* monitor/acquisition/serial_reader.py, class SerialReader.  Further      *)
(* down: the decoder, the filter chain, the spectrogram and the band       *)
(* powers of monitor/signal_processing/filters.py, the consumers of        *)
(* get_data, and the standalone monitor/monitor.py.                        *)
(*                                                                         *)
(* The object's fields are the variables.  Every public method is a pure   *)
(* operator from the object's state (a record, Self) and the outcomes of   *)
(* the environment (does the port open, does a read raise, ...) to the     *)
(* state after the call; an action applies one method to the object.       *)
(* Handlers run to completion on the single Qt thread, so one action is    *)
(* one whole handler, the handlers it calls and the slots of the signals   *)
(* it emits included.                                                      *)
(*                                                                         *)
(* Time: the clock counts ticks; time.time() reads the clock in seconds    *)
(* as a real number.  The estimated sample timestamps are fractions of a   *)
(* tick, so the time buffer holds them in units of 1/Scale tick, Scale a   *)
(* common multiple of every sample count one poll can see: the arithmetic  *)
(* is then exact (floating-point rounding is not modelled).                *)
(***************************************************************************)
EXTENDS Integers, Sequences, FiniteSets, TLC

\* ------------------------------------------------------------------ bounds
\* spectrogram_buffer_size (settings.py:31, 15000 in the program), scaled down
Capacity == 2
\* most bytes the transport's receive buffer holds between two polls
MaxRx == 4
\* last tick of the clock
MaxClock == 2
\* ticks per second: strftime("%Y%m%d-%H%M%S") names a file by the second
TicksPerSecond == 2

\* bytes test_connection reads at most
TestReadMax == 20

\* the byte streams the device may send, one chosen per run: the k-th byte
\* (1-based) of stream d.  The samples of stream 1 are positive and those of
\* stream 2 negative, and within a run all samples differ.  No method branches
\* on a byte's value.
Devices == {1, 2}
DeviceByte(d, k) == IF d = 1 THEN k ELSE 255 - k

\* bytes the device sends in one run of the acquisition path: enough for
\* Capacity + 1 samples
MaxStream == 2 * (Capacity + 1)
\* bytes the device sends in one run of the whole object
MaxBytes == 2

RECURSIVE Gcd(_, _)
Gcd(a, b) == IF b = 0 THEN a ELSE Gcd(b, a % b)

RECURSIVE LcmUpTo(_)
LcmUpTo(n) == IF n <= 1 THEN 1 ELSE LET l == LcmUpTo(n - 1) IN (l * n) \div Gcd(l, n)

\* timestamps are held in units of 1/Scale tick
Scale == LcmUpTo(MaxRx \div 2)

Min(a, b) == IF a < b THEN a ELSE b

\* ------------------------------------------------------------- None values
\* Objects are told apart by an id, 0 for None.  A new object takes an id other
\* than that of the object it replaces, so two ids are enough for the port
\* objects and two for the file objects.
NewId(old) == IF old = 1 THEN 2 ELSE 1

\* self.ser = None
NoneSer == [id |-> 0, is_open |-> FALSE]
\* self.output_file = None
NoneFile == [id |-> 0, name |-> -1, closed |-> FALSE]
\* self.start_time = None, self.output_filename = None
NoneVal == -1

\* ---------------------------------------------------------------- helpers
\* time.strftime("%Y%m%d-%H%M%S"): the clock cut to the second
Strftime(t) == t \div TicksPerSecond

\* int.from_bytes(data, byteorder='little', signed=True) on 2 bytes
MutFromBytesUnsigned(data) == data[1] + 256 * data[2]

FromBytes(data) ==
  LET u == data[1] + 256 * data[2]
  IN IF u >= 32768 THEN u - 65536 ELSE u

\* deque(maxlen=Capacity).append(x): the oldest is evicted when full
MutDequeAppendUnbounded(buf, x) == Append(buf, x)

DequeAppend(buf, x) ==
  IF Len(buf) >= Capacity THEN Append(Tail(buf), x) ELSE Append(buf, x)

\* last_time + (time_elapsed * (i + 1) / num_samples), i 0-based, in 1/Scale tick
MutSampleTimeFromZero(last_time, time_elapsed, i, num_samples) ==
  last_time + (time_elapsed * Scale * i) \div num_samples

MutSampleTimeDescending(last_time, time_elapsed, i, num_samples) ==
  last_time + (time_elapsed * Scale * (num_samples - i)) \div num_samples
SampleTime(last_time, time_elapsed, i, num_samples) ==
  last_time + (time_elapsed * Scale * (i + 1)) \div num_samples

\* the last k elements of a sequence
LastK(s, k) == SubSeq(s, Len(s) - Min(k, Len(s)) + 1, Len(s))

\* ----------------------------------------------------------------- state
VARIABLES
  eeg_buffer,       \* deque of sample values
  time_buffer,      \* deque of sample timestamps (1/Scale tick)
  ser,              \* the serial.Serial object: [id, is_open], id 0 is None
  connected,        \* self.connected
  recording,        \* self.recording
  output_file,      \* the file object: [id, name, closed], id 0 is None
  start_time,       \* self.start_time (ticks), NoneVal is None
  output_filename,  \* self.output_filename, NoneVal is None
  last_timestamp,   \* self.last_timestamp (ticks)
  clock,            \* time.time() (ticks)
  rx,               \* bytes waiting in the open port's receive buffer
  disk,             \* file name -> bytes of the file (empty: none or empty)
  written,          \* bytes written through the file object opened last
  call,             \* the last call: method, return value, what it did in order
  device,           \* the byte stream the device sends in this run
  pure,             \* a pure function under study: its input, stage and results
  hist              \* history: what the session and the recordings were given

vars == <<eeg_buffer, time_buffer, ser, connected, recording, output_file,
          start_time, output_filename, last_timestamp, clock, rx, disk,
          written, call, device, pure, hist>>

Names == 0 .. (MaxClock \div TicksPerSecond)

\* the object and its environment as one record
Self ==
  [eeg_buffer |-> eeg_buffer, time_buffer |-> time_buffer, ser |-> ser,
   connected |-> connected, recording |-> recording,
   output_file |-> output_file, start_time |-> start_time,
   output_filename |-> output_filename, last_timestamp |-> last_timestamp,
   clock |-> clock, rx |-> rx, disk |-> disk,
   written |-> written, call |-> call, device |-> device, hist |-> hist]

\* the object and its environment become s
Assign(s) ==
  /\ eeg_buffer' = s.eeg_buffer
  /\ time_buffer' = s.time_buffer
  /\ ser' = s.ser
  /\ connected' = s.connected
  /\ recording' = s.recording
  /\ output_file' = s.output_file
  /\ start_time' = s.start_time
  /\ output_filename' = s.output_filename
  /\ last_timestamp' = s.last_timestamp
  /\ clock' = s.clock
  /\ rx' = s.rx
  /\ disk' = s.disk
  /\ written' = s.written
  /\ call' = s.call
  /\ hist' = s.hist
  /\ UNCHANGED device

Becomes(s) == Assign(s) /\ UNCHANGED pure

\* The last call: the method (op), what it returned (ok, msg), what it did in
\* order (did), what a get_data in it returned (data), the samples it appended
\* to the buffers (polled) and how many it cleared from them (cleared).  A call
\* begins with nothing returned and nothing done yet.
NoData == <<>>
Enter(s, op) ==
  [s EXCEPT !.call = [op |-> op, ok |-> "None", msg |-> "", did |-> <<>>,
                      data |-> NoData, polled |-> <<>>, cleared |-> 0]]

\* the handler did something observable (a close, an open, a signal)
Did(s, what) == [s EXCEPT !.call.did = Append(@, what)]

\* return (ok, msg), ok one of "True", "False"; "None" when nothing is returned
Return(s, ok, msg) == [s EXCEPT !.call.ok = ok, !.call.msg = msg]

\* history variables, no part of the object:
\*   session  the samples appended to the buffers since the port was last
\*            opened, in order: value, timestamp, and the place of the sample's
\*            first byte in what the port received
\*   expect   the raw chunks of the samples appended to the buffers while the
\*            file object opened last was the recording's file
\*   ioerr    whether a write through that file object failed in the disk
\*   sent     bytes the device sent in this run
\*   base     bytes the device had sent when the open port was opened
\*   file     the id of the file object opened last
\*   stale    whether the elapsed-time baseline (last_timestamp) is earlier
\*            than the time at which the open port was opened
InitHist ==
  [session |-> <<>>, expect |-> <<>>, ioerr |-> FALSE,
   sent |-> 0, base |-> 0, file |-> 0, stale |-> FALSE]

\* the bytes the open port has received since it was opened
Stream(s) == [k \in 1 .. (s.hist.sent - s.hist.base) |->
                DeviceByte(s.device, s.hist.base + k)]

\* how many of them were read out of the port
Taken(s) == (s.hist.sent - s.hist.base) - Len(s.rx)

\* no pure function is under study in the runs of the object
NoPure == [fn |-> "none"]

\* the object after __init__
InitObject ==
  /\ eeg_buffer = <<>>
  /\ time_buffer = <<>>
  /\ ser = NoneSer
  /\ connected = FALSE
  /\ recording = FALSE
  /\ output_file = NoneFile
  /\ start_time = NoneVal
  /\ output_filename = NoneVal
  /\ clock = 0
  /\ last_timestamp = 0
  /\ rx = <<>>
  /\ disk = [n \in Names |-> <<>>]
  /\ written = <<>>
  /\ call = [op |-> "__init__", ok |-> "None", msg |-> "", did |-> <<>>,
             data |-> NoData, polled |-> <<>>, cleared |-> 0]
  /\ hist = InitHist

Init ==
  /\ InitObject
  /\ device \in Devices
  /\ pure = NoPure

SerOpen(s) == s.ser.id # 0 /\ s.ser.is_open

\* ------------------------------------------------------------- the methods
\* connect: self.eeg_buffer.clear(); self.time_buffer.clear()
MutClearBuffersValuesOnly(s) == [s EXCEPT !.eeg_buffer = <<>>]

MutClearBuffersNot(s) == s

ClearBuffers(s) ==
  [s EXCEPT !.eeg_buffer = <<>>, !.time_buffer = <<>>,
            !.call.cleared = Len(s.eeg_buffer)]

\* self.ser.close(): the port's receive buffer goes with it
SerClose(s) ==
  Did([s EXCEPT !.ser.is_open = FALSE, !.rx = <<>>, !.hist.base = s.hist.sent,
                !.hist.stale = FALSE],
      "ser.close")

\* self.ser = serial.Serial(port, baud_rate): a new port object, nothing received yet
SerialOpen(s) ==
  Did([s EXCEPT !.ser = [id |-> NewId(s.ser.id), is_open |-> TRUE], !.rx = <<>>,
                !.hist.session = <<>>, !.hist.base = s.hist.sent,
                !.hist.stale = (s.last_timestamp < s.clock)],
      "serial.Serial")

\* self.last_timestamp = time.time() in connect
MutResetBaselineNot(s) == s

ResetBaseline(s) == [s EXCEPT !.last_timestamp = s.clock, !.hist.stale = FALSE]

\* connect(port); opens: whether serial.Serial(...) succeeds
connect(s, opens) ==
  LET s0 == IF SerOpen(s)
            THEN Did([SerClose(s) EXCEPT !.connected = FALSE], "connected=False")
            ELSE s
  IN IF opens
     THEN LET s1 == Did([SerialOpen(s0) EXCEPT !.connected = TRUE], "connected=True")
              s2 == ClearBuffers(s1)
              s3 == ResetBaseline(s2)
          IN Return(Did(s3, "connection_changed(True)"), "True", "Connected to port")
     ELSE Return(Did(Did([s0 EXCEPT !.connected = FALSE], "connected=False"),
                     "connection_changed(False)"),
                 "False", "Error connecting")

\* self.output_file.close()
FileClose(s) == Did([s EXCEPT !.output_file.closed = TRUE], "output_file.close")

\* stop_recording()
MutStopRecordingNoGuard(s) ==
  IF s.output_file.id # 0
  THEN LET s1 == FileClose(s)
           s2 == Did([s1 EXCEPT !.output_file = NoneFile], "output_file=None")
           s3 == Did([s2 EXCEPT !.recording = FALSE], "recording=False")
       IN Return(s3, "True", "Saved")
  ELSE Return(Did([s EXCEPT !.recording = FALSE], "recording=False"),
              "False", "Recording stopped but no file was open")

stop_recording(s) ==
  IF ~s.recording
  THEN Return(s, "False", "Not recording")
  ELSE IF s.output_file.id # 0
       THEN LET s1 == FileClose(s)
                s2 == Did([s1 EXCEPT !.output_file = NoneFile], "output_file=None")
                s3 == Did([s2 EXCEPT !.recording = FALSE], "recording=False")
            IN Return(s3, "True", "Saved")
       ELSE Return(Did([s EXCEPT !.recording = FALSE], "recording=False"),
                   "False", "Recording stopped but no file was open")

\* disconnect()
MutDisconnectCloseFirst(s) ==
  IF SerOpen(s)
  THEN LET s1 == Did([SerClose(s) EXCEPT !.connected = FALSE], "connected=False")
           s2 == IF s1.recording THEN stop_recording(s1) ELSE s1
       IN Return(Did(s2, "connection_changed(False)"), "True", "")
  ELSE Return(s, "False", "")

disconnect(s) ==
  IF SerOpen(s)
  THEN LET s1 == IF s.recording THEN stop_recording(s) ELSE s
           s2 == Did([SerClose(s1) EXCEPT !.connected = FALSE], "connected=False")
       IN Return(Did(s2, "connection_changed(False)"), "True", "")
  ELSE Return(s, "False", "")

\* open(self.output_filename, 'wb'): a new file object on a created or truncated file
FileOpen(s, name) ==
  LET id == NewId(s.hist.file)
  IN Did([s EXCEPT !.output_file = [id |-> id, name |-> name, closed |-> FALSE],
                   !.disk[name] = <<>>, !.written = <<>>,
                   !.hist.expect = <<>>, !.hist.ioerr = FALSE,
                   !.hist.file = id],
         "open")

\* start_recording(); opens: whether open(...) succeeds
start_recording(s, opens) ==
  IF ~s.connected
  THEN Return(s, "False", "Not connected to any port. Cannot record.")
  ELSE LET s1 == [s EXCEPT !.output_filename = Strftime(s.clock)]
       IN IF opens
          THEN LET s2 == FileOpen(s1, s1.output_filename)
                   s3 == [s2 EXCEPT !.recording = TRUE, !.start_time = s2.clock]
               IN Return(s3, "True", "Recording to file")
          ELSE Return(s1, "False", "Error starting recording")

\* toggle_recording()
toggle_recording(s, opens) ==
  IF ~s.recording THEN start_recording(s, opens) ELSE stop_recording(s)

\* self.ser.read(k): k bytes leave the port's receive buffer
SerRead(s, k) == [s EXCEPT !.rx = SubSeq(@, k + 1, Len(@))]

\* test_connection(); raises: whether in_waiting or read raises
test_connection(s, raises) ==
  IF ~SerOpen(s)
  THEN Return(s, "False", "Not connected to any port.")
  ELSE IF raises
       THEN Return(s, "False", "Connection test error")
       ELSE LET bytes_waiting == Len(s.rx)
            IN IF bytes_waiting > 0
               THEN Return(SerRead(s, Min(bytes_waiting, TestReadMax)),
                           "True", "Data received")
               ELSE Return(s, "True", "No data in buffer.")

\* list(d): a new list holding the elements of the deque d.  A list is told
\* apart from the deque it was made of: shared names the deque when the object
\* is the deque itself, and is "" for a list of its own.
MutListOfShared(name, d) == [shared |-> name, items |-> <<>>]

ListOf(name, d) == [shared |-> "", items |-> d]

\* what a holder of the object l reads in it when the object is in state s
Read(l, s) ==
  IF l.shared = "eeg_buffer" THEN s.eeg_buffer
  ELSE IF l.shared = "time_buffer" THEN s.time_buffer
  ELSE l.items

\* return list(self.eeg_buffer), list(self.time_buffer)
Returned(s) ==
  <<ListOf("eeg_buffer", s.eeg_buffer), ListOf("time_buffer", s.time_buffer)>>

\* get_data(): copies of the two buffers; data is what the caller reads in them
\* on return
get_data(s) ==
  [s EXCEPT !.call.data = <<Read(Returned(s)[1], s), Read(Returned(s)[2], s)>>]

\* cleanup()
cleanup(s) ==
  LET s1 == IF SerOpen(s) THEN SerClose(s) ELSE s
  IN IF s1.recording /\ s1.output_file.id # 0 THEN FileClose(s1) ELSE s1

\* ----------------------------------------------------------------- the poll
\* self.output_file.write(data); fails: whether the write raises.  A write to a
\* closed file object raises ValueError.
FileWrite(s, data, fails) ==
  IF s.output_file.closed
  THEN Did(s, "print(Error processing data byte)")
  ELSE IF fails
  THEN Did([s EXCEPT !.hist.ioerr = TRUE], "print(Error processing data byte)")
  ELSE Did([s EXCEPT !.written = @ \o data,
                     !.disk[s.output_file.name] = @ \o data],
           "output_file.write")

\* one turn of the loop of read_serial_data whose self.ser.read(2) returned:
\* decode, append to both buffers, write to the file when recording
DecodeOne(s, i, sample_times, io) ==
  LET data == SubSeq(s.rx, 1, 2)
      s1 == SerRead(s, 2)
      value == FromBytes(data)
      sample == [v |-> value, t |-> sample_times[i + 1], at |-> Taken(s) + 1]
      rec == s.recording /\ s.output_file.id # 0
      s2 == [s1 EXCEPT !.eeg_buffer = DequeAppend(@, value),
                       !.time_buffer = DequeAppend(@, sample_times[i + 1]),
                       !.hist.session = Append(@, sample),
                       !.call.polled = Append(@, sample)]
      s3 == IF rec
            THEN [s2 EXCEPT !.hist.expect = @ \o data]
            ELSE s2
  IN IF rec THEN FileWrite(s3, data, (i + 1) \in io.write_raises) ELSE s3

\* for i in range(num_samples): ...; the loop ends early when a read raises.
\* L: the object, data_received, and whether an exception left the loop
RECURSIVE ReadLoop(_, _, _, _, _)
ReadLoop(L, i, num_samples, sample_times, io) ==
  IF i >= num_samples
  THEN L
  ELSE IF io.read_raises_at = i + 1
       THEN [L EXCEPT !.raised = TRUE]
       ELSE ReadLoop([L EXCEPT !.st = DecodeOne(L.st, i, sample_times, io),
                               !.data_received = TRUE],
                     i + 1, num_samples, sample_times, io)

\* except Exception as e: print(...); self.connection_changed.emit(False, ...)
ReadExcept(s) ==
  Did(Did(s, "print(Error reading serial data)"), "connection_changed(False)")

\* if not self.ser or not self.ser.is_open: return
ClosedPoll(s) == s

\* the slot of data_updated: update_plots -> update_eeg_display -> get_data
UpdatePlots(s) == get_data(Did(s, "data_updated"))

\* self.last_timestamp = current_time in the poll
MutAdvanceBaselineNot(s, current_time) == s

AdvanceBaseline(s, current_time) ==
  [s EXCEPT !.last_timestamp = current_time, !.hist.stale = FALSE]

\* read_serial_data(); io: what the transport and the disk do in this poll
\*   waiting_raises   self.ser.in_waiting raises
\*   read_raises_at   the read of this turn (1-based) raises, 0: none does
\*   write_raises     the turns (1-based) whose write raises
read_serial_data(s, io) ==
  IF ~SerOpen(s)
  THEN ClosedPoll(s)
  ELSE LET current_time == s.clock
           time_elapsed == current_time - s.last_timestamp
           s1 == AdvanceBaseline(s, current_time)
       IN IF io.waiting_raises
          THEN ReadExcept(s1)
          ELSE LET bytes_to_read == Len(s1.rx)
               IN IF bytes_to_read >= 2
                  THEN LET num_samples == bytes_to_read \div 2
                           last_time == IF Len(s1.time_buffer) > 0
                                        THEN s1.time_buffer[Len(s1.time_buffer)]
                                        ELSE 0
                           sample_times ==
                             [k \in 1 .. num_samples |->
                                SampleTime(last_time, time_elapsed, k - 1, num_samples)]
                           L == ReadLoop([st |-> s1, data_received |-> FALSE,
                                          raised |-> FALSE],
                                         0, num_samples, sample_times, io)
                       IN IF L.raised
                          THEN ReadExcept(L.st)
                          ELSE IF L.data_received THEN UpdatePlots(L.st) ELSE L.st
                  ELSE s1

\* ---------------------------------------------------------------- actions
Connect ==
  \E opens \in BOOLEAN :
    Becomes(connect(Enter(Self, "connect"), opens))

Disconnect == Becomes(disconnect(Enter(Self, "disconnect")))

StartRecording ==
  \E opens \in BOOLEAN :
    Becomes(start_recording(Enter(Self, "start_recording"), opens))

StopRecording == Becomes(stop_recording(Enter(Self, "stop_recording")))

ToggleRecording ==
  \E opens \in BOOLEAN :
    Becomes(toggle_recording(Enter(Self, "toggle_recording"), opens))

TestConnection ==
  \E raises \in BOOLEAN :
    Becomes(test_connection(Enter(Self, "test_connection"), raises))

ReadSerialData ==
  \E waiting_raises \in BOOLEAN :
    \E read_raises_at \in 0 .. (Len(rx) \div 2) :
      \E write_raises \in SUBSET (1 .. (Len(rx) \div 2)) :
        Becomes(read_serial_data(Enter(Self, "read_serial_data"),
                                 [waiting_raises |-> waiting_raises,
                                  read_raises_at |-> read_raises_at,
                                  write_raises |-> write_raises]))

GetData == Becomes(get_data(Enter(Self, "get_data")))

Cleanup == Becomes(cleanup(Enter(Self, "cleanup")))

\* the environment: time passes
Tick ==
  /\ clock < MaxClock
  /\ Becomes([Enter(Self, "tick") EXCEPT !.clock = @ + 1])

\* the environment: the device sends a byte, the open port receives it
DeviceSend(limit) ==
  LET b == DeviceByte(device, hist.sent + 1)
  IN /\ ser.id # 0 /\ ser.is_open
     /\ Len(rx) < MaxRx
     /\ hist.sent < limit
     /\ Becomes([Enter(Self, "device") EXCEPT !.rx = Append(@, b),
                                               !.hist.sent = @ + 1])

\* the whole object: every method, few bytes
Next ==
  \/ Connect
  \/ Disconnect
  \/ StartRecording
  \/ StopRecording
  \/ ToggleRecording
  \/ TestConnection
  \/ ReadSerialData
  \/ GetData
  \/ Cleanup
  \/ Tick
  \/ DeviceSend(MaxBytes)

Spec == Init /\ [][Next]_vars

\* the acquisition path: the methods that touch the port and the buffers, with
\* enough bytes to fill the buffers and evict
NextAcq ==
  \/ Connect
  \/ Disconnect
  \/ TestConnection
  \/ ReadSerialData
  \/ GetData
  \/ Cleanup
  \/ Tick
  \/ DeviceSend(MaxStream)

SpecAcq == Init /\ [][NextAcq]_vars

\* ------------------------------------------------------------------ claims
\* the object's fields and what it owns outside itself (port buffer, files)
Obj == <<eeg_buffer, time_buffer, ser, connected, recording, output_file,
         start_time, output_filename, last_timestamp, rx, disk, written>>

Values(samples) == [k \in 1 .. Len(samples) |-> samples[k].v]
Times(samples) == [k \in 1 .. Len(samples) |-> samples[k].t]

\* a comes before b in the sequence
Before(seq, a, b) ==
  \E j \in 1 .. Len(seq) : \E k \in 1 .. Len(seq) : j < k /\ seq[j] = a /\ seq[k] = b

Has(seq, a) == \E j \in 1 .. Len(seq) : seq[j] = a

TransportOpen == ser.id # 0 /\ ser.is_open

\* C1: the rolling buffer never holds more samples than its capacity, and once
\* more than capacity samples were appended in a session it holds exactly the
\* most recent capacity samples of the session, in arrival order.
C1_BufferBounded ==
  /\ Len(eeg_buffer) <= Capacity
  /\ Len(time_buffer) <= Capacity
  /\ Len(hist.session) > Capacity =>
       /\ eeg_buffer = LastK(Values(hist.session), Capacity)
       /\ time_buffer = LastK(Times(hist.session), Capacity)

\* a poll has just evicted: the session is longer than the buffer
C1_Witness ==
  /\ call.op = "read_serial_data"
  /\ Len(call.polled) >= 1
  /\ Len(hist.session) > Capacity
  /\ Len(eeg_buffer) = Capacity

\* C2: wherever a consumer can run (between handlers, and in the slot of
\* data_updated inside a poll) the two buffers have the same length, at most the
\* capacity, and the i-th timestamp is the timestamp of the i-th value.
C2_BuffersParallel ==
  /\ Len(eeg_buffer) = Len(time_buffer)
  /\ Len(eeg_buffer) <= Capacity
  /\ Len(eeg_buffer) <= Len(hist.session)
  /\ \A k \in 1 .. Len(eeg_buffer) :
       LET sample == LastK(hist.session, Len(eeg_buffer))[k]
       IN eeg_buffer[k] = sample.v /\ time_buffer[k] = sample.t
  /\ call.data # NoData =>
       /\ Len(call.data[1]) = Len(call.data[2])
       /\ call.data[1] = eeg_buffer /\ call.data[2] = time_buffer

\* the slot of data_updated has read full buffers, after an eviction
C2_Witness ==
  /\ call.op = "read_serial_data"
  /\ call.data # NoData
  /\ Len(call.data[1]) = Capacity
  /\ Len(hist.session) > Capacity
  /\ Has(call.did, "data_updated")

\* C3: a successful connect leaves both buffers empty, and every sample in the
\* buffers was decoded from the port opened last: the buffer is a final part of
\* what was appended since that port was opened (all samples of a run differ).
C3_SessionsNeverMix ==
  /\ (call.op = "connect" /\ call.ok = "True") =>
       eeg_buffer = <<>> /\ time_buffer = <<>>
  /\ Len(eeg_buffer) <= Len(hist.session)
  /\ eeg_buffer = LastK(Values(hist.session), Len(eeg_buffer))

\* a successful connect has just cleared samples of the earlier session
C3_Witness ==
  /\ call.op = "connect" /\ call.ok = "True"
  /\ call.cleared > 0
  /\ eeg_buffer = <<>>

\* C4: Recording only while Connected with an open transport.
C4_RecordingRequiresConnected ==
  recording => (connected /\ TransportOpen)

C6_RecordingBitFaithful ==
  ~hist.ioerr => written = hist.expect

\* C7: start_recording while Recording is a no-op that returns a status.
C7_StartWhileRecordingNoOp ==
  [][(call'.op = "start_recording" /\ recording) =>
       /\ output_file' = output_file
       /\ output_filename' = output_filename
       /\ start_time' = start_time
       /\ written' = written /\ disk' = disk
       /\ recording'
       /\ call'.ok \in {"True", "False"}]_vars

\* C8: stop_recording while not Recording changes nothing and returns
\* (False, "Not recording").
C8_StopWhileIdleNoOp ==
  [][(call'.op = "stop_recording" /\ ~recording) =>
       /\ Obj' = Obj
       /\ call'.ok = "False"
       /\ call'.msg = "Not recording"]_vars

\* stop_recording has just been refused on a connected object holding samples
C8_Witness ==
  /\ call.op = "stop_recording" /\ call.ok = "False"
  /\ connected /\ TransportOpen
  /\ Len(eeg_buffer) > 0

\* C9: start_recording with no active connection (the Connected state with an
\* open transport) fails: (False, message), nothing opened, nothing changed.
C9_StartNeedsConnection ==
  [][(call'.op = "start_recording" /\ ~(connected /\ TransportOpen)) =>
       /\ call'.ok = "False"
       /\ output_file' = output_file /\ written' = written /\ disk' = disk
       /\ recording' = recording
       /\ start_time' = start_time
       /\ connected' = connected /\ ser' = ser
       /\ eeg_buffer' = eeg_buffer /\ time_buffer' = time_buffer]_vars

\* the newest timestamp in the buffer, 0 when it is empty
LastTime == IF Len(time_buffer) > 0 THEN time_buffer[Len(time_buffer)] ELSE 0

\* C10 as stated: with n the number of samples the poll decoded, the i-th of
\* them (0-based) has timestamp last_time + dt * (i + 1) / n, so the last one
\* has last_time + dt.
C10_Original ==
  [][(call'.op = "read_serial_data" /\ Len(call'.polled) >= 1) =>
       LET n == Len(call'.polled)
           dt == clock - last_timestamp
       IN /\ \A k \in 1 .. n :
               call'.polled[k].t * n = LastTime * n + dt * Scale * k
          /\ call'.polled[n].t = LastTime + dt * Scale]_vars

\* C10, amended: with n = floor(b / 2) for the b bytes waiting when the poll
\* starts, the i-th decoded sample (0-based) has timestamp
\* last_time + dt * (i + 1) / n, also when a later read of the poll raises;
\* when no read raises all n are decoded, evenly spaced by dt / n, and the last
\* one has last_time + dt.
C10_SampleTimes ==
  [][(call'.op = "read_serial_data" /\ Len(call'.polled) >= 1) =>
       LET n == Len(rx) \div 2
           m == Len(call'.polled)
           dt == clock - last_timestamp
       IN /\ m <= n
          /\ \A k \in 1 .. m :
               call'.polled[k].t * n = LastTime * n + dt * Scale * k
          /\ \A k \in 1 .. (m - 1) :
               (call'.polled[k + 1].t - call'.polled[k].t) * n = dt * Scale
          /\ (~Has(call'.did, "connection_changed(False)")) =>
               /\ m = n
               /\ call'.polled[n].t = LastTime + dt * Scale
          /\ time_buffer' = LastK(time_buffer \o Times(call'.polled), Capacity)]_vars

\* a poll has just spread a positive interval over two samples, after earlier
\* samples of the session
C10_Witness ==
  /\ call.op = "read_serial_data"
  /\ Len(call.polled) >= 2
  /\ Len(hist.session) > Len(call.polled)
  /\ call.polled[1].t > hist.session[Len(hist.session) - Len(call.polled)].t
  /\ call.polled[2].t > call.polled[1].t

\* timestamps in buffer order: each one less than the next / at most the next
StrictlyIncreasing(seq) == \A k \in 1 .. (Len(seq) - 1) : seq[k] < seq[k + 1]
NonDecreasing(seq) == \A k \in 1 .. (Len(seq) - 1) : seq[k] <= seq[k + 1]

\* C11 as stated: the timestamps in the rolling buffer are strictly increasing
\* in buffer order, within a poll and across polls.
C11_Original ==
  StrictlyIncreasing(time_buffer)

\* C11, amended: with a clock that never runs backwards the timestamps in the
\* rolling buffer are non-decreasing in buffer order; the timestamps a poll
\* appends are strictly increasing and greater than the newest one already in
\* the buffer exactly when time has elapsed since the previous poll (or the
\* connect), and all equal to that newest one when none has.
C11_TimestampsOrdered ==
  /\ [](NonDecreasing(time_buffer))
  /\ [][(call'.op = "read_serial_data" /\ Len(call'.polled) >= 1) =>
          LET dt == clock - last_timestamp
              ts == <<LastTime>> \o Times(call'.polled)
          IN /\ dt >= 0
             /\ dt > 0 => StrictlyIncreasing(ts)
             /\ dt = 0 => \A k \in 1 .. Len(ts) : ts[k] = LastTime]_vars

\* the buffer holds samples of two polls, the later poll after time elapsed
C11_Witness ==
  /\ call.op = "read_serial_data"
  /\ Len(call.polled) >= 1
  /\ Len(time_buffer) > Len(call.polled)
  /\ StrictlyIncreasing(time_buffer)
  /\ time_buffer[1] > 0

\* C12: a successful connect sets the elapsed-time baseline to the time of the
\* connect, so while a port is open the baseline is never earlier than the
\* time the port was opened: the elapsed time a data-bearing poll spreads over
\* its samples starts at the connect or later, and the timestamps of the first
\* data-bearing poll of a session lie within that elapsed time.
C12_BaselineReset ==
  /\ [](~hist.stale)
  /\ [][/\ (call'.op = "connect" /\ call'.ok = "True") =>
             last_timestamp' = clock'
        /\ (call'.op = "read_serial_data" /\ Len(call'.polled) >= 1) =>
             LET dt == clock - last_timestamp
                 m == Len(call'.polled)
             IN /\ ~hist.stale
                /\ dt >= 0
                /\ Len(hist.session) = 0 =>
                     /\ call'.polled[m].t <= dt * Scale
                     /\ \A k \in 1 .. m : call'.polled[k].t >= 0]_vars

\* the first data-bearing poll of a second session has spread less than the
\* time since the start of the run over its samples
C12_Witness ==
  /\ call.op = "read_serial_data"
  /\ Len(call.polled) >= 1
  /\ Len(hist.session) = Len(call.polled)
  /\ ser.id = 2
  /\ clock = MaxClock
  /\ call.polled[Len(call.polled)].t > 0
  /\ call.polled[Len(call.polled)].t < clock * Scale

\* ------------------------------------------------------------- the decoder
\* The decoding of a byte sequence, chunk by chunk, as the loop of the poll
\* does it (and as load_recording reads a recording back on a little-endian
\* host).
MaxPairs == 2
AllBytes == 0 .. 255
Int16 == -32768 .. 32767
EdgeBytes == {0, 1, 127, 128, 255}
EdgeValues == {-32768, -1, 0, 1, 32767}

DecodeAll(bytes) ==
  [k \in 1 .. (Len(bytes) \div 2) |-> FromBytes(<<bytes[2 * k - 1], bytes[2 * k]>>)]

\* value.to_bytes(2, byteorder='little', signed=True), the inverse the claim
\* speaks of: two's complement, low byte first
ToBytes(value) ==
  LET u == value % 65536
  IN <<u % 256, u \div 256>>

RECURSIVE EncodeAll(_)
EncodeAll(values) ==
  IF values = <<>> THEN <<>>
  ELSE ToBytes(Head(values)) \o EncodeAll(Tail(values))

\* inputs: every byte pair and every 16-bit value, and the longer sequences
\* over the edge bytes and edge values
ToDecode(b) == [fn |-> "decode", bytes |-> b, values |-> <<>>, back |-> <<>>]
ToEncode(v) == [fn |-> "encode", bytes |-> <<>>, values |-> v, back |-> <<>>]

InitCodec ==
  /\ InitObject
  /\ device = 1
  /\ \/ \E lo \in AllBytes : \E hi \in AllBytes : pure = ToDecode(<<lo, hi>>)
     \/ \E n \in 0 .. MaxPairs : \E b \in [1 .. (2 * n) -> EdgeBytes] :
          pure = ToDecode(b)
     \/ \E v \in Int16 : pure = ToEncode(<<v>>)
     \/ \E n \in 0 .. MaxPairs : \E v \in [1 .. n -> EdgeValues] :
          pure = ToEncode(v)

object == <<eeg_buffer, time_buffer, ser, connected, recording, output_file,
            start_time, output_filename, last_timestamp, clock, rx, disk,
            written, call, device, hist>>

\* bytes -> values
Decode ==
  /\ pure.fn = "decode"
  /\ pure' = [pure EXCEPT !.fn = "decoded", !.values = DecodeAll(pure.bytes)]
  /\ UNCHANGED object

\* the decoded values -> bytes again
Reencode ==
  /\ pure.fn = "decoded"
  /\ pure' = [pure EXCEPT !.fn = "reencoded", !.back = EncodeAll(pure.values)]
  /\ UNCHANGED object

\* values -> bytes
Encode ==
  /\ pure.fn = "encode"
  /\ pure' = [pure EXCEPT !.fn = "encoded", !.bytes = EncodeAll(pure.values)]
  /\ UNCHANGED object

\* the encoded bytes -> values again
Redecode ==
  /\ pure.fn = "encoded"
  /\ pure' = [pure EXCEPT !.fn = "redecoded", !.back = DecodeAll(pure.bytes)]
  /\ UNCHANGED object

NextCodec == Decode \/ Reencode \/ Encode \/ Redecode

SpecCodec == InitCodec /\ [][NextCodec]_vars

\* C13: decoding is a bijection between byte pairs and -32768..32767: a byte
\* sequence of even length decodes to one value of that range per pair, and
\* encoding the values gives the same bytes back; every value of the range
\* encodes to two bytes that decode to it.
C13_DecodeRoundTrip ==
  /\ pure.fn \in {"decoded", "reencoded"} =>
       /\ Len(pure.values) * 2 = Len(pure.bytes)
       /\ \A k \in 1 .. Len(pure.values) : pure.values[k] \in Int16
  /\ pure.fn = "reencoded" => pure.back = pure.bytes
  /\ pure.fn \in {"encoded", "redecoded"} =>
       /\ Len(pure.bytes) = 2 * Len(pure.values)
       /\ \A k \in 1 .. Len(pure.bytes) : pure.bytes[k] \in AllBytes
  /\ pure.fn = "redecoded" => pure.back = pure.values

\* two pairs, one decoding to a negative value, went there and back
C13_Witness ==
  /\ pure.fn = "reencoded"
  /\ Len(pure.bytes) = 4
  /\ pure.values[1] < 0 /\ pure.values[2] > 0
  /\ pure.back = pure.bytes

\* C14: a poll that finds b bytes decodes exactly floor(b/2) samples
\* and consumes exactly 2*floor(b/2) bytes, with fewer than 2 bytes it appends
\* nothing, and an odd trailing byte is neither decoded nor dropped but is the
\* first byte of a sample decoded later: the k-th sample of a session is
\* decoded from the k-th pair of bytes the port received.  (Polls in which the
\* transport raises are left aside.)
C14_PollFraming ==
  /\ [][(call'.op = "read_serial_data" /\ TransportOpen
          /\ ~Has(call'.did, "connection_changed(False)")) =>
          LET b == Len(rx)
          IN /\ Len(call'.polled) = b \div 2
             /\ Len(rx') = b - 2 * (b \div 2)
             /\ b < 2 => (eeg_buffer' = eeg_buffer /\ time_buffer' = time_buffer)]_vars
  /\ [](\A k \in 1 .. Len(hist.session) : hist.session[k].at = 2 * k - 1)

\* a transport operation of the poll raised (self.ser.in_waiting or
\* self.ser.read) and the poll's handler caught it
TransportRaised(c) ==
  c.op = "read_serial_data" /\ Has(c.did, "print(Error reading serial data)")

\* C15: when a transport operation raises during a poll, the poll returns
\* normally, a status message is surfaced (connection_changed(False, ...)) and
\* the connection state is Disconnected afterwards: connected is False.
C15_TransportErrorDisconnects ==
  [][TransportRaised(call') =>
       /\ call'.ok = "None"
       /\ Has(call'.did, "connection_changed(False)")
       /\ ~connected']_vars

\* C16: a poll while the transport is absent or closed returns
\* normally, changes nothing (buffers, timestamps, recording file) and emits
\* connection_changed(False, ...).
C16_ClosedPollSignals ==
  [][(call'.op = "read_serial_data" /\ ~TransportOpen) =>
       /\ call'.ok = "None"
       /\ call'.polled = <<>>
       /\ Obj' = Obj
       /\ Has(call'.did, "connection_changed(False)")]_vars

\* a write to the recording file raised in the poll
WriteRaised(c) ==
  c.op = "read_serial_data" /\ Has(c.did, "print(Error processing data byte)")

\* C17: when a write to the recording file fails during a poll, the recording
\* is aborted (recording False, handle released) while acquisition keeps
\* running: the connection state is unchanged and, unless the transport raises
\* too, every sample of the poll is appended to the buffers.
C17_WriteFailureAbortsRecording ==
  [][(recording /\ WriteRaised(call')) =>
       /\ ~recording'
       /\ output_file' = NoneFile
       /\ connected' = connected /\ ser' = ser
       /\ (~TransportRaised(call')) => Len(call'.polled) = Len(rx) \div 2
       /\ eeg_buffer' = LastK(eeg_buffer \o Values(call'.polled), Capacity)]_vars

\* ---------------------------------------------------------- the filter chain
\* SignalProcessor.apply_filters.  Frequencies are in tenths of a hertz, the
\* sampling rate in hertz.  The output of a stage is not computed: a result
\* names the input and the stages applied to it, in order.
MinFilterLen == 30
FilterLengths == {0, MinFilterLen - 1, MinFilterLen, MinFilterLen + 1}
Ramp(n) == [k \in 1 .. n |-> k]

\* values of the settings at the start: the defaults (0.5, 70 and 60 Hz at
\* 500 Hz), "Off", and cutoffs at and above half the sampling rate
SamplingRates == {500, 100}
HighpassInputs == {0, 5, 500, 2500, 3000}
LowpassInputs == {0, 300, 700, 2500, 3000}
NotchInputs == {0, 500, 600, 3000}

\* the choices of the three combo boxes: "Off" is 0 for highpass and notch and
\* sampling_rate / 2 for lowpass
HighpassChoices == {0, 1, 5, 10, 50}
LowpassChoices(fs) == {300, 500, 700, 1000, 5 * fs}
NotchChoices == {0, 500, 600}

\* the stages whose filtfilt raises ValueError in a call: none or one
FiltfiltFailures == {{}, {"highpass"}, {"lowpass"}, {"notch"}}

\* half the sampling rate, in tenths of a hertz
Nyquist(fs) == 5 * fs

\* butter(order, cutoff / nyq, ...) returns coefficients when
\* 0 < cutoff / nyq < 1 and raises ValueError otherwise
ButterOk(cutoff, fs) == 0 < cutoff /\ cutoff < Nyquist(fs)

\* iirnotch(cutoff / nyq, Q) raises ValueError when cutoff / nyq is below 0 or
\* above 1
NotchOk(cutoff, fs) == 0 <= cutoff /\ cutoff <= Nyquist(fs)

\* whether the design of the stage's coefficients succeeds
DesignOk(name, cutoff, fs) ==
  IF name = "notch" THEN NotchOk(cutoff, fs) ELSE ButterOk(cutoff, fs)

\* if len(data) < 30
MutTooShortNever(data) == FALSE

TooShort(data) == Len(data) < MinFilterLen

\* the conditions under which a stage runs
HighpassRuns(settings) == settings.highpass > 0

MutLowpassRunsPositive(settings) == settings.lowpass > 0

LowpassRuns(settings) == settings.lowpass < Nyquist(settings.sampling_rate)

NotchRuns(settings) == settings.notch > 0

\* one stage: design the coefficients (an exception of the design leaves the
\* function), then filtfilt inside try/except ValueError
FilterStage(r, name, runs, cutoff, fs, ff) ==
  IF r.raised \/ ~runs
  THEN r
  ELSE LET r1 == [r EXCEPT !.ran = Append(@, name)]
       IN IF ~DesignOk(name, cutoff, fs)
          THEN [r1 EXCEPT !.raised = TRUE]
          ELSE IF name \in ff
               THEN r1
               ELSE [r1 EXCEPT !.stages = Append(@, name)]

\* apply_filters(eeg_data); ff: the stages whose filtfilt raises ValueError
apply_filters(settings, eeg_data, ff) ==
  LET data == [raised |-> FALSE, base |-> eeg_data, ran |-> <<>>, stages |-> <<>>]
      fs == settings.sampling_rate
  IN IF TooShort(eeg_data)
     THEN data
     ELSE IF settings.enable_filter
          THEN LET r1 == FilterStage(data, "highpass", HighpassRuns(settings),
                                     settings.highpass, fs, ff)
                   r2 == FilterStage(r1, "lowpass", LowpassRuns(settings),
                                     settings.lowpass, fs, ff)
               IN FilterStage(r2, "notch", NotchRuns(settings),
                              settings.notch, fs, ff)
          ELSE data

NoResult == [raised |-> FALSE, base |-> <<>>, ran |-> <<>>, stages |-> <<>>]

InitFilter ==
  /\ InitObject
  /\ device = 1
  /\ \E hp \in HighpassInputs : \E lp \in LowpassInputs : \E nt \in NotchInputs :
     \E en \in BOOLEAN : \E fs \in SamplingRates : \E n \in FilterLengths :
       pure = [fn |-> "settings",
               settings |-> [highpass |-> hp, lowpass |-> lp, notch |-> nt,
                             enable_filter |-> en, sampling_rate |-> fs],
               data |-> Ramp(n), changed |-> FALSE, ff |-> {},
               result |-> NoResult]

\* ControlPanel.update_filter_settings: the three cutoffs from the combo boxes
UpdateFilterSettings ==
  /\ \E hp \in HighpassChoices :
     \E lp \in LowpassChoices(pure.settings.sampling_rate) :
     \E nt \in NotchChoices :
       pure' = [pure EXCEPT !.fn = "update_filter_settings",
                            !.settings.highpass = hp,
                            !.settings.lowpass = lp,
                            !.settings.notch = nt,
                            !.changed = TRUE, !.ff = {},
                            !.result = NoResult]
  /\ UNCHANGED object

\* a refresh calls apply_filters on the data with the settings as they are
ApplyFilters ==
  /\ \E ff \in FiltfiltFailures :
       pure' = [pure EXCEPT !.fn = "apply_filters", !.ff = ff,
                            !.result = apply_filters(pure.settings, pure.data, ff)]
  /\ UNCHANGED object

NextFilter == UpdateFilterSettings \/ ApplyFilters

SpecFilter == InitFilter /\ [][NextFilter]_vars

\* the stages that run under the settings, in the order of the chain
Planned(settings) ==
  (IF HighpassRuns(settings) THEN <<"highpass">> ELSE <<>>)
    \o (IF LowpassRuns(settings) THEN <<"lowpass">> ELSE <<>>)
    \o (IF NotchRuns(settings) THEN <<"notch">> ELSE <<>>)

\* the cutoff of a stage
Cutoff(settings, name) ==
  IF name = "highpass" THEN settings.highpass
  ELSE IF name = "lowpass" THEN settings.lowpass
  ELSE settings.notch

\* the stages of seq that do not fail: design and filtfilt both succeed
Succeeding(seq, settings, ff) ==
  LET Works(name) == /\ DesignOk(name, Cutoff(settings, name),
                                 settings.sampling_rate)
                     /\ name \notin ff
  IN SelectSeq(seq, Works)

\* C18: on at least 30 samples with filtering enabled, a stage that fails (in
\* the design of its coefficients or in applying them) is skipped and nothing
\* else: apply_filters returns normally, and the stages applied are the stages
\* that run under the settings less the failing ones, in order.
C18_FailingStageSkipped ==
  [][(pure'.fn = "apply_filters" /\ ~TooShort(pure.data)
        /\ pure.settings.enable_filter) =>
       /\ ~pure'.result.raised
       /\ pure'.result.ran = Planned(pure.settings)
       /\ pure'.result.stages =
            Succeeding(Planned(pure.settings), pure.settings, pure'.ff)]_vars

\* C19: on fewer than 30 samples apply_filters returns the input unchanged and
\* runs no stage, whatever enable_filter, the cutoffs and the sampling rate are.
C19_ShortInputUnchanged ==
  [][(pure'.fn = "apply_filters" /\ Len(pure.data) < MinFilterLen) =>
       /\ ~pure'.result.raised
       /\ pure'.result.base = pure.data
       /\ pure'.result.ran = <<>>
       /\ pure'.result.stages = <<>>]_vars

\* apply_filters has returned 29 samples unchanged under settings that would
\* run all three stages on 30
C19_Witness ==
  /\ pure.fn = "apply_filters"
  /\ Len(pure.data) = MinFilterLen - 1
  /\ pure.settings.enable_filter
  /\ Planned(pure.settings) = <<"highpass", "lowpass", "notch">>
  /\ pure.result.stages = <<>>
  /\ pure.result.base = pure.data

SpectrumRates == {100, 140, 500}
SpectrumLengths(fs) ==
  {0, fs - 1, fs, fs + 1, 2 * fs - 1, 2 * fs, 2 * fs + 1, 3 * fs}

\* return None, None, None, None, None
NoneSpectrogram ==
  [none |-> TRUE, freqs |-> <<>>, den |-> 1, times |-> 0, rows |-> 0,
   min_freq |-> 0, max_freq |-> 0]

\* the segment length scipy uses: nperseg, or the input's length when that is
\* shorter
Nperseg(nperseg, n) == IF nperseg > n THEN n ELSE nperseg

\* the one-sided frequency axis of segments of nperseg samples: bins
\* 0 .. nperseg // 2, as numerators over nperseg
Rfftfreq(nperseg, fs) == [k \in 1 .. (nperseg \div 2 + 1) |-> (k - 1) * fs]

\* calculate_spectrogram(eeg_data); raises: whether spectrogram(...) or the
\* conversion to dB raises (a window name the installed scipy does not know,
\* for one)
calculate_spectrogram(fs, eeg_data, raises) ==
  IF Len(eeg_data) < fs
  THEN NoneSpectrogram
  ELSE LET nperseg == Nperseg(2 * fs, Len(eeg_data))
           noverlap == (2 * fs) \div 2
       IN IF raises \/ noverlap >= nperseg
          THEN NoneSpectrogram
          ELSE LET freqs == Rfftfreq(nperseg, fs)
               IN [none |-> FALSE, freqs |-> freqs, den |-> nperseg,
                   times |-> (Len(eeg_data) - noverlap) \div (nperseg - noverlap),
                   rows |-> Len(freqs),
                   min_freq |-> 0, max_freq |-> 70]

\* the spectrogram image: how many rows of power it shows and the band of
\* frequencies (hertz) its rectangle spans
NoImage == [rows |-> 0, low |-> 0, high |-> 0]

\* SpectrogramPlot.update_plot(freqs, times, power, min_freq, max_freq), called
\* by update_spectrogram unless freqs is None
update_plot(img, r) ==
  IF r.none \/ r.times = 0
  THEN img
  ELSE [rows |-> r.rows, low |-> r.min_freq, high |-> r.max_freq]

\* the bands of calculate_bands, in tenths of a hertz
bands ==
  [delta |-> <<5, 40>>, theta |-> <<40, 80>>, alpha |-> <<80, 130>>,
   beta |-> <<130, 300>>, gamma |-> <<300, 700>>]

BandNames == {"delta", "theta", "alpha", "beta", "gamma"}

\* np.logical_and(freqs >= low, freqs <= high): the bins of the band
idx_band(band, fs, nperseg) ==
  {k \in 0 .. (nperseg \div 2) :
     /\ 10 * k * fs >= bands[band][1] * nperseg
     /\ 10 * k * fs <= bands[band][2] * nperseg}

\* a band power: exactly 0, or the mean of the spectrum over a set of bins
ZeroPower == [zero |-> TRUE, bins |-> {}]
MeanOver(bins) == [zero |-> FALSE, bins |-> bins]

\* if len(eeg_data) < fs * 2
MutBandsTooShortOneSecond(fs, eeg_data) == Len(eeg_data) < fs

BandsTooShort(fs, eeg_data) == Len(eeg_data) < fs * 2

\* calculate_bands(eeg_data); raises: whether welch or a mean raises
calculate_bands(fs, eeg_data, raises) ==
  IF BandsTooShort(fs, eeg_data)
  THEN [band \in DOMAIN bands |-> ZeroPower]
  ELSE IF raises
       THEN [band \in DOMAIN bands |-> ZeroPower]
       ELSE LET nperseg == Nperseg(fs * 2, Len(eeg_data))
            IN [band \in DOMAIN bands |-> MeanOver(idx_band(band, fs, nperseg))]

NoBands == [band \in {} |-> ZeroPower]

InitSpectrum ==
  /\ InitObject
  /\ device = 1
  /\ \E fs \in SpectrumRates : \E n \in SpectrumLengths(fs) :
       pure = [fn |-> "data", fs |-> fs, data |-> Ramp(n), raises |-> FALSE,
               spectrogram |-> NoneSpectrogram, img |-> NoImage,
               band_powers |-> NoBands]

CalculateSpectrogram ==
  /\ \E raises \in BOOLEAN :
       pure' = [pure EXCEPT !.fn = "calculate_spectrogram", !.raises = raises,
                            !.spectrogram =
                              calculate_spectrogram(pure.fs, pure.data, raises)]
  /\ UNCHANGED object

\* update_spectrogram hands the result to the view: if freqs is None: return
UpdatePlot ==
  /\ pure.fn = "calculate_spectrogram"
  /\ ~pure.spectrogram.none
  /\ pure' = [pure EXCEPT !.fn = "update_plot",
                          !.img = update_plot(pure.img, pure.spectrogram)]
  /\ UNCHANGED object

CalculateBands ==
  /\ \E raises \in BOOLEAN :
       pure' = [pure EXCEPT !.fn = "calculate_bands", !.raises = raises,
                            !.band_powers =
                              calculate_bands(pure.fs, pure.data, raises)]
  /\ UNCHANGED object

NextSpectrum == CalculateSpectrogram \/ UpdatePlot \/ CalculateBands

SpecSpectrum == InitSpectrum /\ [][NextSpectrum]_vars

\* C21: every frequency bin calculate_spectrogram returns lies within
\* [min_freq, max_freq] = [0, 70] Hz, so the rows of power the view is handed
\* are the rows of the band over which it draws them.
C21_SpectrogramBand ==
  (pure.fn \in {"calculate_spectrogram", "update_plot"} /\ ~pure.spectrogram.none) =>
    LET r == pure.spectrogram
    IN /\ r.min_freq = 0 /\ r.max_freq = 70
       /\ r.rows = Len(r.freqs)
       /\ \A k \in 1 .. Len(r.freqs) :
            /\ r.freqs[k] >= r.min_freq * r.den
            /\ r.freqs[k] <= r.max_freq * r.den
       /\ pure.fn = "update_plot" =>
            /\ pure.img.rows = r.rows
            /\ pure.img.low = r.min_freq /\ pure.img.high = r.max_freq

\* C22: calculate_bands on fewer than 2 seconds of samples (length less than
\* 2 * sampling_rate) returns a mapping with exactly the five keys delta,
\* theta, alpha, beta, gamma, each mapped to exactly 0, whether or not the
\* spectrum could be computed.
C22_ShortInputZeroBands ==
  [][(pure'.fn = "calculate_bands" /\ Len(pure.data) < 2 * pure.fs) =>
       /\ DOMAIN pure'.band_powers = BandNames
       /\ Cardinality(DOMAIN pure'.band_powers) = 5
       /\ \A band \in BandNames : pure'.band_powers[band] = ZeroPower]_vars

\* calculate_bands has returned the five zeros on one sample less than two
\* seconds
C22_Witness ==
  /\ pure.fn = "calculate_bands"
  /\ ~pure.raises
  /\ Len(pure.data) = 2 * pure.fs - 1
  /\ DOMAIN pure.band_powers = BandNames
  /\ \A band \in BandNames : pure.band_powers[band] = ZeroPower

\* C30: every frequency bin of the Welch spectrum contributes to the mean of
\* at most one band: the sets of bins selected for the five bands are pairwise
\* disjoint, the bins on a band boundary included.
C30_BandsDisjoint ==
  (pure.fn = "calculate_bands" /\ DOMAIN pure.band_powers = BandNames) =>
    \A a \in BandNames : \A b \in BandNames :
      a # b => pure.band_powers[a].bins \cap pure.band_powers[b].bins = {}

\* ------------------------------------------------------------- the consumer
\* A consumer (the refresh timers' handlers, the slot of data_updated) calls
\* get_data and keeps what it returned while later handlers run.  pure holds
\* the consumer: the two objects it was returned (held), what it read in them
\* when they were returned (taken), and how many samples the session had then.
NoSnapshot == [fn |-> "consumer", has |-> FALSE, held |-> <<>>, taken |-> <<>>,
               session |-> 0]

\* the consumer after a handler that left the object in state s: it holds the
\* return value of the handler's get_data, the last thing such a handler does
Consumer(p, s) ==
  IF s.call.data # NoData
  THEN [fn |-> "consumer", has |-> TRUE, held |-> Returned(s),
        taken |-> s.call.data, session |-> Len(s.hist.session)]
  ELSE p

Handles(s) == Assign(s) /\ pure' = Consumer(pure, s)

InitSnapshot ==
  /\ InitObject
  /\ device \in Devices
  /\ pure = NoSnapshot

SnapConnect ==
  \E opens \in BOOLEAN : Handles(connect(Enter(Self, "connect"), opens))

SnapPoll ==
  \E read_raises_at \in 0 .. (Len(rx) \div 2) :
    Handles(read_serial_data(Enter(Self, "read_serial_data"),
                             [waiting_raises |-> FALSE,
                              read_raises_at |-> read_raises_at,
                              write_raises |-> {}]))

SnapGetData == Handles(get_data(Enter(Self, "get_data")))

SnapTick ==
  /\ clock < MaxClock
  /\ Handles([Enter(Self, "tick") EXCEPT !.clock = @ + 1])

SnapDeviceSend ==
  /\ ser.id # 0 /\ ser.is_open
  /\ Len(rx) < MaxRx
  /\ hist.sent < MaxStream
  /\ Handles([Enter(Self, "device") EXCEPT
                !.rx = Append(@, DeviceByte(device, hist.sent + 1)),
                !.hist.sent = @ + 1])

NextSnapshot ==
  \/ SnapConnect
  \/ SnapPoll
  \/ SnapGetData
  \/ SnapTick
  \/ SnapDeviceSend

SpecSnapshot == InitSnapshot /\ [][NextSnapshot]_vars

\* what the consumer reads now in the objects it holds
Snapshot == <<Read(pure.held[1], Self), Read(pure.held[2], Self)>>

\* C23: get_data returns copies of the buffer's values and timestamps,
\* parallel and in buffer order: a snapshot, whether taken by a handler of its
\* own or by the slot of data_updated inside a poll, holds as many timestamps
\* as values, the k-th timestamp that of the k-th value, and it is the same
\* whatever is appended to or cleared from the buffers after it was returned.
C23_SnapshotIsCopy ==
  /\ [](pure.has =>
          /\ Snapshot = pure.taken
          /\ Len(Snapshot[1]) = Len(Snapshot[2]))
  /\ [][call'.data # NoData =>
          /\ call'.data = <<eeg_buffer', time_buffer'>>
          /\ pure'.has /\ pure'.taken = call'.data
          /\ Len(call'.data[1]) = Len(call'.data[2])
          /\ Len(call'.data[1]) <= Len(hist'.session)
          /\ \A k \in 1 .. Len(call'.data[1]) :
               LET sample == LastK(hist'.session, Len(call'.data[1]))[k]
               IN call'.data[1][k] = sample.v /\ call'.data[2][k] = sample.t]_vars

\* the consumer holds a snapshot with samples taken inside a poll, and the
\* buffers have since been cleared by a connect and filled by another poll
C23_Witness ==
  /\ pure.has
  /\ Len(pure.taken[1]) >= 1
  /\ ser.id = 2
  /\ call.op = "read_serial_data" /\ Len(call.polled) >= 1
  /\ Len(hist.session) >= 1
  /\ Snapshot = pure.taken
  /\ pure.taken[1] # eeg_buffer

\* C24: an output handle exists iff the object is Recording, and while
\* Recording the handle is open: recording True implies output_file is an open
\* file and start_time is set, recording False implies output_file is None,
\* after every method (a failed start, stop_recording, disconnect and cleanup
\* included).
C24_HandleIffRecording ==
  /\ recording =>
       (output_file.id # 0 /\ ~output_file.closed /\ start_time # NoneVal)
  /\ ~recording => output_file = NoneFile

\* ------------------------------------------------- the standalone monitor
\* monitor/monitor.py, class RealEEGMonitor: the same acquisition in one
\* class.  Its fields eeg_buffer, ser, recording, output_file and start_time
\* are the variables of the same names; it has no time buffer, no connected
\* flag and no elapsed-time baseline, and those variables stay as they start.

\* __init__ tries to open the port and goes on without it when that fails
InitStandalone ==
  /\ eeg_buffer = <<>>
  /\ time_buffer = <<>>
  /\ ser \in {NoneSer, [id |-> 1, is_open |-> TRUE]}
  /\ connected = FALSE
  /\ recording = FALSE
  /\ output_file = NoneFile
  /\ start_time = NoneVal
  /\ output_filename = NoneVal
  /\ clock = 0
  /\ last_timestamp = 0
  /\ rx = <<>>
  /\ disk = [n \in Names |-> <<>>]
  /\ written = <<>>
  /\ call = [op |-> "__init__", ok |-> "None", msg |-> "", did |-> <<>>,
             data |-> NoData, polled |-> <<>>, cleared |-> 0]
  /\ hist = InitHist
  /\ device \in Devices
  /\ pure = NoPure

\* connect_serial(); opens: whether serial.Serial(...) succeeds
connect_serial(s, opens) ==
  LET s0 == IF SerOpen(s) THEN SerClose(s) ELSE s
  IN IF opens
     THEN Did(SerialOpen(s0), "update_connection_status")
     ELSE Did(Did(s0, "status_label(Error connecting)"), "update_connection_status")

\* test_serial_connection(); raises: whether in_waiting or read raises
test_serial_connection(s, raises) ==
  IF ~SerOpen(s)
  THEN Did(s, "status_label(Not connected)")
  ELSE IF raises
       THEN Did(s, "status_label(Connection test error)")
       ELSE LET bytes_waiting == Len(s.rx)
            IN IF bytes_waiting > 0
               THEN Did(SerRead(s, Min(bytes_waiting, TestReadMax)),
                        "status_label(Data received)")
               ELSE Did(s, "status_label(No data in buffer)")

\* one turn of the loop of RealEEGMonitor.read_serial_data
MonitorDecodeOne(s, i, io) ==
  LET data == SubSeq(s.rx, 1, 2)
      s1 == SerRead(s, 2)
      value == FromBytes(data)
      sample == [v |-> value, t |-> 0, at |-> Taken(s) + 1]
      rec == s.recording /\ s.output_file.id # 0
      s2 == [s1 EXCEPT !.eeg_buffer = DequeAppend(@, value),
                       !.hist.session = Append(@, sample),
                       !.call.polled = Append(@, sample)]
      s3 == IF rec THEN [s2 EXCEPT !.hist.expect = @ \o data] ELSE s2
  IN IF rec THEN FileWrite(s3, data, (i + 1) \in io.write_raises) ELSE s3

RECURSIVE MonitorReadLoop(_, _, _, _)
MonitorReadLoop(L, i, num_samples, io) ==
  IF i >= num_samples
  THEN L
  ELSE IF io.read_raises_at = i + 1
       THEN [L EXCEPT !.raised = TRUE]
       ELSE MonitorReadLoop([L EXCEPT !.st = MonitorDecodeOne(L.st, i, io)],
                            i + 1, num_samples, io)

\* except Exception as e: print(...); self.update_connection_status()
MonitorReadExcept(s) ==
  Did(Did(s, "print(Error reading serial data)"), "update_connection_status")

\* RealEEGMonitor.read_serial_data(); io as for the poll of SerialReader
monitor_read_serial_data(s, io) ==
  IF ~SerOpen(s)
  THEN s
  ELSE IF io.waiting_raises
       THEN MonitorReadExcept(s)
       ELSE LET bytes_to_read == Len(s.rx)
            IN IF bytes_to_read >= 2
               THEN LET num_samples == bytes_to_read \div 2
                        L == MonitorReadLoop([st |-> s, raised |-> FALSE],
                                             0, num_samples, io)
                    IN IF L.raised THEN MonitorReadExcept(L.st) ELSE L.st
               ELSE s

ConnectSerial ==
  \E opens \in BOOLEAN :
    Becomes(connect_serial(Enter(Self, "connect_serial"), opens))

TestSerialConnection ==
  \E raises \in BOOLEAN :
    Becomes(test_serial_connection(Enter(Self, "test_serial_connection"), raises))

MonitorReadSerialData ==
  \E waiting_raises \in BOOLEAN :
    \E read_raises_at \in 0 .. (Len(rx) \div 2) :
      Becomes(monitor_read_serial_data(
                Enter(Self, "read_serial_data"),
                [waiting_raises |-> waiting_raises,
                 read_raises_at |-> read_raises_at,
                 write_raises |-> {}]))

NextStandalone ==
  \/ ConnectSerial
  \/ TestSerialConnection
  \/ MonitorReadSerialData
  \/ DeviceSend(MaxStream)

SpecStandalone == InitStandalone /\ [][NextStandalone]_vars

\* C25: in the standalone monitor a successful (re)connect through
\* connect_serial clears the rolling buffer, so every sample in the buffer was
\* decoded from the connection that is open or was open last: samples of an
\* earlier connection are never in the buffer with samples of a newer one.
C25_StandaloneReconnectClears ==
  /\ (call.op = "connect_serial" /\ Has(call.did, "serial.Serial")) =>
       eeg_buffer = <<>>
  /\ Len(eeg_buffer) <= Len(hist.session)
  /\ eeg_buffer = LastK(Values(hist.session), Len(eeg_buffer))

\* ------------------------------------------------------------ the fast poll
\* __init__ starts a timer that calls read_serial_data every
\* int(update_interval / 4) milliseconds for as long as the object lives: the
\* poll is taken again and again.  Whether the transport raises is up to the
\* environment; the poll in which it does not raise is the one that is taken
\* again and again while the port works.
NoFaults == [waiting_raises |-> FALSE, read_raises_at |-> 0, write_raises |-> {}]

TimerPoll ==
  \E s \in {read_serial_data(Enter(Self, "read_serial_data"), NoFaults)} :
    Becomes(s)

\* the methods that read the transport, on a connection that is opened and
\* reopened but not closed.  The clock stands: the timestamps have no part in
\* which bytes a poll consumes.
NextLive ==
  \/ Connect
  \/ TestConnection
  \/ ReadSerialData
  \/ DeviceSend(MaxStream)

SpecLive == Init /\ [][NextLive]_vars /\ WF_vars(TimerPoll)

\* the open port has received the k-th pair of bytes of its session
Received(k) == TransportOpen /\ hist.sent - hist.base >= 2 * k

\* the sample made of the k-th pair of bytes was appended in this session
Appended(k) == \E j \in 1 .. Len(hist.session) : hist.session[j].at = 2 * k - 1

\* C26: while the connection stays open and the poll keeps firing, every
\* complete 2-byte sample the transport received is eventually appended to the
\* rolling buffer; a poll in which the transport does not raise consumes every
\* complete pair of bytes that waited when it started and leaves at most one
\* byte.
C26_EverySampleAppended ==
  /\ \A k \in 1 .. (MaxStream \div 2) :
       Received(k) ~> (Appended(k) \/ ~Received(k))
  /\ [][(call'.op = "read_serial_data" /\ TransportOpen
          /\ ~Has(call'.did, "connection_changed(False)")) =>
          /\ Len(call'.polled) = Len(rx) \div 2
          /\ Len(rx') = Len(rx) % 2
          /\ Len(rx') <= 1]_vars

\* C27: within one connection session the samples appended to the buffer
\* decode consecutive, non-overlapping pairs of the bytes the port received,
\* from the first byte on: the k-th sample (from 1) is made of bytes 2k-1 and
\* 2k of the session, and every byte taken out of the port is a byte of a
\* decoded sample, whatever calls of test_connection and get_data come between
\* the polls.
C27_NoByteLost ==
  /\ \A k \in 1 .. Len(hist.session) : hist.session[k].at = 2 * k - 1
  /\ TransportOpen => Taken(Self) = 2 * Len(hist.session)

\* C28: connected is True iff a transport handle exists and is open, after
\* every connect (successful or failing), disconnect, poll (a poll whose
\* transport read raises included) and cleanup; so a toggle_connection, which
\* branches on the flag, disconnects an open transport and connects when none
\* is open.
C28_ConnectedIffOpen ==
  connected <=> TransportOpen

\* ------------------------------------------------------- the elapsed time
\* The elapsed intervals of the polls of a session, summed as the handlers
\* run.  pure holds the sums, in 1/Scale tick, over the polls of the session
\* that decoded at least one sample:
\*   whole  the elapsed interval of each such poll
\*   part   of the elapsed interval of each such poll, the part m / n for the
\*          m samples it decoded of the n = floor(b / 2) that waited
\*   cut    whether one of them decoded fewer than waited (a read raised)
\* and over the polls of the session that decoded none:
\*   idle   the elapsed interval of each such poll
NoElapsed ==
  [fn |-> "elapsed", whole |-> 0, part |-> 0, cut |-> FALSE, idle |-> 0]

\* the sums after a handler that took the object from state s to state t
Elapsed(p, s, t) ==
  IF t.call.op = "connect" /\ Has(t.call.did, "serial.Serial")
  THEN NoElapsed
  ELSE IF t.call.op = "read_serial_data" /\ Len(t.call.polled) >= 1
       THEN LET time_elapsed == s.clock - s.last_timestamp
                n == Len(s.rx) \div 2
                m == Len(t.call.polled)
            IN [p EXCEPT !.whole = @ + time_elapsed * Scale,
                         !.part = @ + (time_elapsed * Scale * m) \div n,
                         !.cut = @ \/ m < n]
       ELSE IF t.call.op = "read_serial_data" /\ SerOpen(s)
            THEN [p EXCEPT !.idle = @ + (s.clock - s.last_timestamp) * Scale]
            ELSE p

Tracks(s) == Assign(s) /\ pure' = Elapsed(pure, Self, s)

InitElapsed ==
  /\ InitObject
  /\ device \in Devices
  /\ pure = NoElapsed

ElapsedConnect ==
  \E opens \in BOOLEAN : Tracks(connect(Enter(Self, "connect"), opens))

ElapsedPoll ==
  \E waiting_raises \in BOOLEAN :
    \E read_raises_at \in 0 .. (Len(rx) \div 2) :
      Tracks(read_serial_data(Enter(Self, "read_serial_data"),
                              [waiting_raises |-> waiting_raises,
                               read_raises_at |-> read_raises_at,
                               write_raises |-> {}]))

ElapsedTick ==
  /\ clock < MaxClock
  /\ Tracks([Enter(Self, "tick") EXCEPT !.clock = @ + 1])

ElapsedDeviceSend ==
  /\ ser.id # 0 /\ ser.is_open
  /\ Len(rx) < MaxRx
  /\ hist.sent < MaxStream
  /\ Tracks([Enter(Self, "device") EXCEPT
               !.rx = Append(@, DeviceByte(device, hist.sent + 1)),
               !.hist.sent = @ + 1])

NextElapsed ==
  \/ ElapsedConnect
  \/ ElapsedPoll
  \/ ElapsedTick
  \/ ElapsedDeviceSend

SpecElapsed == InitElapsed /\ [][NextElapsed]_vars

\* the newest timestamp of the session: that of its last sample, 0 before the
\* first
SessionTime ==
  IF Len(hist.session) > 0 THEN hist.session[Len(hist.session)].t ELSE 0

\* C29 as stated: every poll on an open transport advances the baseline, also
\* one that appends nothing, and in every reachable state the newest buffered
\* timestamp of the session is the sum of the elapsed intervals of exactly the
\* polls that decoded at least one sample.
C29_Original ==
  /\ [](SessionTime = pure.whole)
  /\ [][(call'.op = "read_serial_data" /\ TransportOpen) =>
          last_timestamp' = clock]_vars

\* C29, amended: every poll on an open transport sets the baseline to the time
\* of the poll, also one that appends nothing or whose transport raises; a
\* poll that appends nothing adds nothing to any timestamp; and the newest
\* buffered timestamp of the session is the sum, over the polls that decoded at
\* least one sample, of the part m / n of the poll's elapsed interval (m
\* samples decoded of the n that waited): the sum of their whole elapsed
\* intervals as long as no read of such a poll raised.
C29_ElapsedOnlyDataPolls ==
  /\ [](/\ SessionTime = pure.part
        /\ ~pure.cut => SessionTime = pure.whole
        /\ Len(time_buffer) > 0 =>
             time_buffer[Len(time_buffer)] = SessionTime)
  /\ [][(call'.op = "read_serial_data" /\ TransportOpen) =>
          /\ last_timestamp' = clock
          /\ Len(call'.polled) = 0 =>
               /\ time_buffer' = time_buffer
               /\ pure'.whole = pure.whole /\ pure'.part = pure.part]_vars

\* a poll without data took up elapsed time, and a later poll has appended a
\* sample whose timestamp leaves that time out
C29_Witness ==
  /\ call.op = "read_serial_data"
  /\ Len(call.polled) >= 1
  /\ ~pure.cut
  /\ SessionTime = pure.whole
  /\ SessionTime > 0
  /\ pure.idle > 0
====
